---------------------------- MODULE Spec2Model ----------------------------
(***************************************************************************)
(* A model of quebap/model/reader.py: the AtomicBatcher (lexicon           *)
(* construction, the create_batches generator, negative sampling from the  *)
(* batcher's private random.Random(0)) and the drivers that call it.       *)
(*                                                                         *)
(* Texts (question and answer strings) are modelled as small integers,     *)
(* compared as Python compares strings.  A field of the input dictionary   *)
(* that may be absent is a sequence of length 0 (absent) or 1 (present).   *)
(***************************************************************************)
EXTENDS Integers, Sequences, FiniteSets

\* ------------------------------------------------------------- bounds
MaxLen == 3          \* instances in the training file
MaxTestLen == 1      \* instances in the test file
MaxBatchSize == 2    \* batch_size arguments 1..MaxBatchSize
MaxGens == 2         \* create_batches calls per batcher
MaxPulls == 4        \* next() calls per batcher
MaxPairCalls == 3    \* calls replayed on the second batcher

Texts == {1, 2}
Batchers == {1, 2}

\* ------------------------------------------------------------- data
Opt(S) == {<<>>} \cup {<<s>> : s \in S}
SeqsUpTo(S, n) == UNION {[1..k -> S] : k \in 0..n}
Range(s) == {s[i] : i \in DOMAIN s}
Min(a, b) == IF a < b THEN a ELSE b

RECURSIVE SortedSeq(_)
SortedSeq(S) ==
    IF S = {} THEN <<>>
    ELSE LET m == CHOOSE x \in S : \A y \in S : x <= y
         IN  <<m>> \o SortedSeq(S \ {m})

\* inst['questions'][0]['question'] and inst['questions'][0]['answers'][0]['text']
InstancesOK == [question : {<<t>> : t \in Texts}, answer : {<<t>> : t \in Texts}]
InstancesAny == [question : Opt(Texts), answer : Opt(Texts)]

\* a quebap file: reference_data['globals']['candidates'], reference_data['instances']
Quebap(cands, insts) == [candidates |-> cands, instances |-> insts]

\* globals.candidates of a training file: any set of texts, each listed once, in
\* order (duplicates and order are exercised by the question texts, which reach
\* their lexicon the same way)
CandidateLists == {[k \in DOMAIN SortedSeq(S) |-> <<SortedSeq(S)[k]>>] : S \in SUBSET Texts}

WellFormedData ==
    {Quebap(<<c>>, <<i>>) : c \in CandidateLists, i \in SeqsUpTo(InstancesOK, MaxLen)}

\* a test file: only its instances are read
TestData ==
    {Quebap(<<>>, <<i>>) : i \in SeqsUpTo(InstancesOK, MaxTestLen) \ {<<>>}}

\* files with a field that __init__ or create_batches reads absent
MalformedData ==
    {d \in {Quebap(c, i) : c \in Opt(SeqsUpTo(Opt(Texts), MaxTestLen)),
                           i \in Opt(SeqsUpTo(InstancesAny, MaxBatchSize))} :
        \/ d.candidates = <<>>
        \/ d.instances = <<>>
        \/ \E k \in DOMAIN d.candidates[1] : d.candidates[1][k] = <<>>
        \/ \E k \in DOMAIN d.instances[1] :
               d.instances[1][k].question = <<>> \/ d.instances[1][k].answer = <<>>}

\* the files of the runs that compare two batchers
PairData ==
    {d \in WellFormedData :
        /\ Len(d.instances[1]) <= MaxBatchSize
        /\ \A k \in DOMAIN d.instances[1] : d.instances[1][k].answer \in Range(d.candidates[1])}

\* ------------------------------------------------------------- FrozenIdentifier
\* FrozenIdentifier(symbols): the distinct symbols, ids 0..n-1 in sorted order
FrozenIdentifier(symbols) == SortedSeq(symbols)

Known(lexicon, t) == \E i \in DOMAIN lexicon : lexicon[i] = t

\* lexicon[t] fails for a text that is not a symbol of the lexicon
LookupFailure(lexicon, t) == IF Known(lexicon, t) THEN "" ELSE "LookupError"

\* lexicon[t]: the id of a symbol of the lexicon (-1 stands for the id of a text that
\* has none: its lookup fails, see LookupFailure)
Lookup(lexicon, t) ==
    IF Known(lexicon, t) THEN (CHOOSE i \in DOMAIN lexicon : lexicon[i] = t) - 1 ELSE -1

\* ------------------------------------------------------------- random.Random(0)
\* getrandbits(32) >> 24 of the first words of the Mersenne Twister seeded with 0
MTBits ==
    << 216, 98, 194, 227, 107, 10, 66, 247, 130, 124, 103, 235, 200, 212, 77, 247,
       122, 91, 149, 228, 232, 55, 129, 35, 72, 35, 193, 24, 158, 204, 64, 252,
       232, 136, 251, 180, 207, 154, 230, 37, 79, 25, 186, 18, 230, 217, 175, 84,
       120, 143, 25, 90, 111, 80, 156, 163, 233, 52, 247, 141, 122, 113, 221, 133,
       66, 15, 206, 235, 140, 234, 3, 23, 184, 215, 102, 181, 211, 200, 171, 160,
       0, 156, 126, 211, 222, 85, 62, 186, 83, 180, 222, 16, 48, 234, 145, 56 >>

RECURSIVE bit_length(_)
bit_length(n) == IF n = 0 THEN 0 ELSE 1 + bit_length(n \div 2)

\* the state of a random source is the number of words it has consumed
getrandbits(pos, k) == MTBits[pos + 1] \div (2 ^ (8 - k))

\* Random._randbelow(n), n > 0: rejection sampling on k = n.bit_length() bits
RECURSIVE randbelow(_, _)
randbelow(pos, n) ==
    IF pos >= Len(MTBits) THEN [val |-> -1, pos |-> pos]
    ELSE LET r == getrandbits(pos, bit_length(n))
         IN  IF r >= n THEN randbelow(pos + 1, n)
             ELSE [val |-> r, pos |-> pos + 1]

\* Random.randint(a, b), a <= b
randint(pos, a, b) ==
    LET r == randbelow(pos, b - a + 1)
    IN  [val |-> IF r.val < 0 THEN r.val ELSE a + r.val, pos |-> r.pos]


\* ------------------------------------------------------------- state
VARIABLES
    quebaps,            \* main: the training file, json.load(args.train)
    test_data,          \* train_reader: the test file
    status,             \* per batcher: "none", "ok" (constructed), "failed" (__init__ raised)
    reference_data,     \* per batcher: self.reference_data
    question_lexicon,   \* per batcher: self.question_lexicon
    candidate_lexicon,  \* per batcher: self.candidate_lexicon
    num_candidates,     \* per batcher: self.num_candidates
    num_questions,      \* per batcher: self.num_questions
    random,             \* per random source: words consumed from the seeded stream
    draws,              \* per batcher: randint calls made so far (history)
    gens,               \* per batcher: the generators create_batches returned
    calls               \* per batcher: the calls made on it (history, pair runs only)

vars == <<quebaps, test_data, status, reference_data, question_lexicon,
          candidate_lexicon, num_candidates, num_questions, random, draws, gens, calls>>

inputs == <<quebaps, test_data>>
attrs == <<status, reference_data, question_lexicon, candidate_lexicon,
           num_candidates, num_questions>>

NoData == Quebap(<<>>, <<>>)

\* ------------------------------------------------------------- AtomicBatcher.__init__
\* (a variant: one module-level source shared by all batchers)
RandomShared(b) == 1

\* the random source a batcher draws from: its own (self.random)
RandomOf(b) == b

\* (a variant: __init__ also reads every instance's first answer text)
InitRaisesStrict(data) ==
    \/ data.candidates = <<>>
    \/ \E i \in DOMAIN data.candidates[1] : data.candidates[1][i] = <<>>
    \/ data.instances = <<>>
    \/ \E i \in DOMAIN data.instances[1] :
           data.instances[1][i].question = <<>> \/ data.instances[1][i].answer = <<>>

InitRaises(data) ==
    \/ data.candidates = <<>>
    \/ \E i \in DOMAIN data.candidates[1] : data.candidates[1][i] = <<>>
    \/ data.instances = <<>>
    \/ \E i \in DOMAIN data.instances[1] : data.instances[1][i].question = <<>>

all_candidates(data) == {c[1] : c \in Range(data.candidates[1])}
all_questions(data) == {inst.question[1] : inst \in Range(data.instances[1])}

Construct(b) ==
    /\ status[b] = "none"
    /\ IF InitRaises(quebaps)
       THEN /\ status' = [status EXCEPT ![b] = "failed"]
            /\ UNCHANGED <<reference_data, question_lexicon, candidate_lexicon,
                           num_candidates, num_questions, random>>
       ELSE /\ status' = [status EXCEPT ![b] = "ok"]
            /\ reference_data' = [reference_data EXCEPT ![b] = quebaps]
            /\ question_lexicon' =
                   [question_lexicon EXCEPT ![b] = FrozenIdentifier(all_questions(quebaps))]
            /\ candidate_lexicon' =
                   [candidate_lexicon EXCEPT ![b] = FrozenIdentifier(all_candidates(quebaps))]
            /\ random' = [random EXCEPT ![RandomOf(b)] = 0]
            /\ num_candidates' =
                   [num_candidates EXCEPT ![b] = Len(FrozenIdentifier(all_candidates(quebaps)))]
            /\ num_questions' =
                   [num_questions EXCEPT ![b] = Len(FrozenIdentifier(all_questions(quebaps)))]
    /\ UNCHANGED <<inputs, draws, gens, calls>>

\* ------------------------------------------------------------- create_batches
\* calling the generator function runs none of its body
NewGenerator(data, batch_size, test) ==
    [data |-> data, batch_size |-> batch_size, test |-> test, pc |-> "created",
     instances |-> <<>>, b |-> 0, out |-> <<>>]

\* (a variant: every create_batches call reseeds the random source)
CreateBatchesReseed(b, data, batch_size, test) ==
    /\ status[b] = "ok"
    /\ Len(gens[b]) < MaxGens
    /\ gens' = [gens EXCEPT ![b] = Append(@, NewGenerator(data, batch_size, test))]
    /\ random' = [random EXCEPT ![RandomOf(b)] = 0]
    /\ UNCHANGED <<inputs, attrs, draws>>

CreateBatches(b, data, batch_size, test) ==
    /\ status[b] = "ok"
    /\ Len(gens[b]) < MaxGens
    /\ gens' = [gens EXCEPT ![b] = Append(@, NewGenerator(data, batch_size, test))]
    /\ UNCHANGED <<inputs, attrs, random, draws>>

\* instances[lo:hi] as Python slices: the indices (1-based) it takes
SliceIdx(instances, lo, hi) ==
    [i \in 1..(Min(hi, Len(instances)) - Min(lo, Len(instances))) |-> lo + i]

\* inst['questions'][0][...] fails on an absent field, the lexicon on an unknown text
FieldError(lexicon, field) ==
    IF field = <<>> THEN "StructuralError" ELSE LookupFailure(lexicon, field[1])

FieldId(lexicon, field) == IF field = <<>> THEN -1 ELSE Lookup(lexicon, field[1])

RECURSIVE FirstError(_, _, _)
FirstError(lexicon, fields, i) ==
    IF i > Len(fields) THEN ""
    ELSE IF FieldError(lexicon, fields[i]) # "" THEN FieldError(lexicon, fields[i])
    ELSE FirstError(lexicon, fields, i + 1)

\* (a variant: an answer text without an id gets a default instead of failing)
BatchErrorDefaultAnswer(b, batch) ==
    FirstError(question_lexicon[b], [i \in DOMAIN batch |-> batch[i].question], 1)

\* lines 73-76: the question ids are built first, then the answer ids; the first
\* failing access or lookup propagates
BatchError(b, batch) ==
    LET qerr == FirstError(question_lexicon[b], [i \in DOMAIN batch |-> batch[i].question], 1)
        aerr == FirstError(candidate_lexicon[b], [i \in DOMAIN batch |-> batch[i].answer], 1)
    IN  IF qerr # "" THEN qerr ELSE aerr

\* (a variant: the upper end of the range is len(candidate_lexicon))
RECURSIVE SampleNegInclusive(_, _, _, _)
SampleNegInclusive(pos, n, count, test) ==
    IF count = 0 THEN [vals |-> <<>>, pos |-> pos, error |-> ""]
    ELSE LET r == randint(pos, 0, n)
             rest == SampleNegInclusive(r.pos, n, count - 1, test)
         IN  [vals |-> <<r.val>> \o rest.vals, pos |-> rest.pos, error |-> rest.error]

\* (a variant: a test run samples nothing and pairs every answer with candidate 0)
RECURSIVE SampleNegEval(_, _, _, _)
SampleNegEval(pos, n, count, test) ==
    IF test THEN [vals |-> [i \in 1..count |-> 0], pos |-> pos, error |-> ""]
    ELSE IF count = 0 THEN [vals |-> <<>>, pos |-> pos, error |-> ""]
    ELSE IF n = 0 THEN [vals |-> <<>>, pos |-> pos, error |-> "ValueError"]
    ELSE LET r == randint(pos, 0, n - 1)
             rest == SampleNegEval(r.pos, n, count - 1, test)
         IN  [vals |-> <<r.val>> \o rest.vals, pos |-> rest.pos, error |-> rest.error]

\* line 79: count calls of randint(0, n - 1); ValueError on an empty range
RECURSIVE SampleNeg(_, _, _, _)
SampleNeg(pos, n, count, test) ==
    IF count = 0 THEN [vals |-> <<>>, pos |-> pos, error |-> ""]
    ELSE IF n = 0 THEN [vals |-> <<>>, pos |-> pos, error |-> "ValueError"]
    ELSE LET r == randint(pos, 0, n - 1)
             rest == SampleNeg(r.pos, n, count - 1, test)
         IN  [vals |-> <<r.val>> \o rest.vals, pos |-> rest.pos, error |-> rest.error]

\* (a variant: the sampled candidate is put first)
ZipSwapped(xs, ys) == [i \in 1..Min(Len(xs), Len(ys)) |-> <<ys[i], xs[i]>>]

\* line 84: zip(answer_ids, neg)
Zip(xs, ys) == [i \in 1..Min(Len(xs), Len(ys)) |-> <<xs[i], ys[i]>>]

EmptyBatch == [question_ids |-> <<>>, candidate_ids |-> <<>>, target_values |-> <<>>]

Raise(kind, pos) == [kind |-> kind, batch |-> EmptyBatch, src |-> <<>>, pos |-> pos, n |-> 0]

\* (a variant: the last, short window is visited too)
NumBatchesCeil(len, batch_size) == (len + batch_size - 1) \div batch_size

\* the number of windows the loop of line 71 visits
NumBatches(len, batch_size) == len \div batch_size

\* one pass of the loop body, lines 72-86, for window gb
LoopBody(b, instances, batch_size, test, gb, pos) ==
    LET src == SliceIdx(instances, gb * batch_size, (gb + 1) * batch_size)
        batch == [i \in DOMAIN src |-> instances[src[i]]]
        err == BatchError(b, batch)
        question_ids == [i \in DOMAIN batch |-> FieldId(question_lexicon[b], batch[i].question)]
        answer_ids == [i \in DOMAIN batch |-> FieldId(candidate_lexicon[b], batch[i].answer)]
        neg == SampleNeg(pos, Len(candidate_lexicon[b]), batch_size, test)
    IN  IF err # "" THEN Raise(err, pos)
        ELSE IF neg.error # "" THEN Raise(neg.error, pos)
        ELSE [kind |-> "batch",
              batch |-> [question_ids |-> question_ids,
                         candidate_ids |-> Zip(answer_ids, neg.vals),
                         target_values |-> [i \in 1..batch_size |-> <<1, 0>>]],
              src |-> src, pos |-> neg.pos, n |-> Len(neg.vals)]

\* (a variant: the data argument is ignored)
SourceInstancesRefOnly(b, data) == reference_data[b].instances

\* line 70, run by the first next()
SourceInstances(b, data) ==
    IF data = <<>> THEN reference_data[b].instances ELSE data[1].instances

\* (a variant: an iterable that starts over once it has ended)
AdvanceRestartable(gen, kind) ==
    IF kind = "batch" THEN [pc |-> "suspended", b |-> gen.b + 1]
    ELSE [pc |-> "created", b |-> 0]

\* a yield suspends the generator; StopIteration or a propagated error finishes it
Advance(gen, kind) ==
    IF kind = "batch" THEN [pc |-> "suspended", b |-> gen.b + 1]
    ELSE [pc |-> "closed", b |-> gen.b]

\* next(generator): the result and the generator afterwards
GeneratorNext(b, gen, pos) ==
    LET src == IF gen.pc = "created" THEN SourceInstances(b, gen.data) ELSE <<gen.instances>>
        instances == IF src = <<>> THEN <<>> ELSE src[1]
        res == IF gen.pc = "closed" THEN Raise("StopIteration", pos)
               ELSE IF src = <<>> THEN Raise("StructuralError", pos)
               ELSE IF gen.b < NumBatches(Len(instances), gen.batch_size)
                    THEN LoopBody(b, instances, gen.batch_size, gen.test, gen.b, pos)
               ELSE Raise("StopIteration", pos)
    IN  [res |-> res,
         gen |-> [gen EXCEPT !.pc = Advance(gen, res.kind).pc,
                             !.instances = instances,
                             !.b = Advance(gen, res.kind).b,
                             !.out = Append(gen.out, [kind |-> res.kind, batch |-> res.batch,
                                                      src |-> res.src])]]

RECURSIVE SumLen(_, _)
SumLen(gs, i) == IF i > Len(gs) THEN 0 ELSE Len(gs[i].out) + SumLen(gs, i + 1)

Pulls(b) == SumLen(gens[b], 1)

Pull(b, g) ==
    /\ status[b] = "ok"
    /\ g \in DOMAIN gens[b]
    /\ LET r == GeneratorNext(b, gens[b][g], random[RandomOf(b)])
       IN  /\ r.res.pos <= Len(MTBits)
           /\ \A i \in DOMAIN r.res.batch.candidate_ids : r.res.batch.candidate_ids[i][2] >= 0
           /\ gens' = [gens EXCEPT ![b][g] = r.gen]
           /\ random' = [random EXCEPT ![RandomOf(b)] = r.res.pos]
           /\ draws' = [draws EXCEPT ![b] = @ + r.res.n]
    /\ UNCHANGED <<inputs, attrs>>

\* ------------------------------------------------------------- one batcher
\* the calls of the drivers: create_batches(train_data, batch_size) with the data the
\* batcher was built from (or none given), create_batches(test_data, test=True)
DataArgs == {<<>>, <<test_data>>}
DriverTest(data) == data = <<test_data>>

InitState ==
    /\ status = [b \in Batchers |-> "none"]
    /\ reference_data = [b \in Batchers |-> NoData]
    /\ question_lexicon = [b \in Batchers |-> <<>>]
    /\ candidate_lexicon = [b \in Batchers |-> <<>>]
    /\ num_candidates = [b \in Batchers |-> 0]
    /\ num_questions = [b \in Batchers |-> 0]
    /\ random = [b \in Batchers |-> 0]
    /\ draws = [b \in Batchers |-> 0]
    /\ gens = [b \in Batchers |-> <<>>]
    /\ calls = [b \in Batchers |-> <<>>]

Init ==
    /\ quebaps \in WellFormedData
    /\ test_data \in TestData
    /\ InitState

Next ==
    \/ Construct(1)
    \/ \E data \in DataArgs, batch_size \in 1..MaxBatchSize :
           CreateBatches(1, data, batch_size, DriverTest(data)) /\ UNCHANGED calls
    \/ \E g \in 1..MaxGens : Pulls(1) < MaxPulls /\ Pull(1, g) /\ UNCHANGED calls

Spec == Init /\ [][Next]_vars


\* ------------------------------------------------------------- malformed files
InitMalformed ==
    /\ quebaps \in MalformedData
    /\ test_data \in TestData
    /\ InitState

SpecMalformed == InitMalformed /\ [][Next]_vars

\* ------------------------------------------------------------- two batchers
\* Batcher 1 is driven freely and its calls are recorded; batcher 2, built from the
\* same file, is driven by the same calls, each with a test flag of its own.
CreateCall(data, batch_size, test) ==
    [op |-> "create_batches", data |-> data, batch_size |-> batch_size, test |-> test, g |-> 0]
NextCall(g) ==
    [op |-> "next", data |-> <<>>, batch_size |-> 0, test |-> FALSE, g |-> g]

Record(b, call) == calls' = [calls EXCEPT ![b] = Append(@, call)]

\* both batchers are built, one after the other, before either is driven
ConstructPair(b) ==
    /\ b = 1 \/ status[1] = "ok"
    /\ Construct(b)

LeaderCreate(data, batch_size) ==
    /\ status[2] = "ok"
    /\ Len(calls[1]) < MaxPairCalls
    /\ CreateBatches(1, data, batch_size, DriverTest(data))
    /\ Record(1, CreateCall(data, batch_size, DriverTest(data)))

LeaderPull(g) ==
    /\ status[2] = "ok"
    /\ Len(calls[1]) < MaxPairCalls
    /\ Pull(1, g)
    /\ Record(1, NextCall(g))

ReplicaCreate(test) ==
    /\ Len(calls[2]) < Len(calls[1])
    /\ LET c == calls[1][Len(calls[2]) + 1]
       IN  /\ c.op = "create_batches"
           /\ CreateBatches(2, c.data, c.batch_size, test)
           /\ Record(2, CreateCall(c.data, c.batch_size, test))

ReplicaPull ==
    /\ Len(calls[2]) < Len(calls[1])
    /\ LET c == calls[1][Len(calls[2]) + 1]
       IN  /\ c.op = "next"
           /\ Pull(2, c.g)
           /\ Record(2, NextCall(c.g))

InitPair ==
    /\ quebaps \in PairData
    /\ test_data \in TestData
    /\ InitState

NextPair ==
    \/ \E b \in Batchers : ConstructPair(b)
    \/ \E data \in DataArgs, batch_size \in 1..MaxBatchSize : LeaderCreate(data, batch_size)
    \/ \E g \in 1..MaxGens : LeaderPull(g)
    \/ \E test \in BOOLEAN : ReplicaCreate(test)
    \/ ReplicaPull

SpecPair == InitPair /\ [][NextPair]_vars


\* ------------------------------------------------------------- properties
\* what the properties read off a generator
IsBatch(r) == r.kind = "batch"
Emitted(gen) == SelectSeq(gen.out, IsBatch)
NB(gen) == Len(Emitted(gen))
Ends(gen) == {k \in DOMAIN gen.out : gen.out[k].kind # "batch"}
\* how the iteration ended: "" while it has not
FirstEnd(gen) ==
    IF Ends(gen) = {} THEN ""
    ELSE gen.out[CHOOSE k \in Ends(gen) : \A j \in Ends(gen) : k <= j].kind
\* the instances a generator of batcher b is to batch
Source(b, gen) ==
    IF gen.data = <<>> THEN quebaps.instances[1] ELSE gen.data[1].instances[1]
Full(gen, len) == (len \div gen.batch_size) * gen.batch_size
Gens(b) == {gens[b][g] : g \in DOMAIN gens[b]}

\* C1: a drained generator has yielded exactly L // B batches, every batch has exactly
\* B entries in each of its three fields, and no batch holds one of the last L % B
\* instances.
BatchShapeInvariant ==
    \A gen \in Gens(1) :
        LET L == Len(Source(1, gen))
            B == gen.batch_size
        IN  /\ \A k \in DOMAIN gen.out :
                   gen.out[k].kind = "batch" =>
                       /\ Len(gen.out[k].batch.question_ids) = B
                       /\ Len(gen.out[k].batch.candidate_ids) = B
                       /\ Len(gen.out[k].batch.target_values) = B
                       /\ Len(gen.out[k].src) = B
                       /\ \A i \in DOMAIN gen.out[k].src : gen.out[k].src[i] <= L - (L % B)
            /\ NB(gen) <= L \div B
            /\ FirstEnd(gen) = "StopIteration" => NB(gen) = L \div B

\* a generator drained after at least one batch, with instances left over
BatchShapeWitness ==
    \E gen \in Gens(1) :
        /\ FirstEnd(gen) = "StopIteration"
        /\ NB(gen) >= 1
        /\ Len(Source(1, gen)) % gen.batch_size # 0

\* C2: element i of batch k has target (1.0, 0.0), the candidate-lexicon id of the first
\* answer of instance k*B+i in slot 0, and the question-lexicon id of that instance's
\* question.
WindowLabelInvariant ==
    \A gen \in Gens(1) :
        \A k \in DOMAIN gen.out :
            gen.out[k].kind = "batch" =>
                \A i \in 1..gen.batch_size :
                    LET at == (k - 1) * gen.batch_size + i
                        bt == gen.out[k].batch
                    IN  /\ at <= Len(Source(1, gen))
                        /\ i \in DOMAIN bt.target_values /\ bt.target_values[i] = <<1, 0>>
                        /\ i \in DOMAIN bt.candidate_ids
                        /\ bt.candidate_ids[i][1] =
                               Lookup(candidate_lexicon[1], Source(1, gen)[at].answer[1])
                        /\ i \in DOMAIN bt.question_ids
                        /\ bt.question_ids[i] =
                               Lookup(question_lexicon[1], Source(1, gen)[at].question[1])

\* two batches of two different questions, the first with a negative that is not the positive
WindowLabelWitness ==
    \E gen \in Gens(1) :
        /\ NB(gen) >= 2
        /\ gen.out[1].batch.question_ids[1] # gen.out[2].batch.question_ids[1]
        /\ gen.out[1].batch.candidate_ids[1][1] # gen.out[1].batch.candidate_ids[1][2]

\* C3: every id of every emitted batch is a row of its embedding table: positives and
\* negatives lie in [0, num_candidates), question ids in [0, num_questions).
IdRangeInvariant ==
    \A gen \in Gens(1) :
        \A k \in DOMAIN gen.out :
            LET bt == gen.out[k].batch
            IN  /\ \A i \in DOMAIN bt.candidate_ids :
                       /\ bt.candidate_ids[i][1] \in 0..(num_candidates[1] - 1)
                       /\ bt.candidate_ids[i][2] \in 0..(num_candidates[1] - 1)
                /\ \A i \in DOMAIN bt.question_ids :
                       bt.question_ids[i] \in 0..(num_questions[1] - 1)

\* a negative equal to its positive, and a negative that is the last candidate
IdRangeWitness ==
    /\ num_candidates[1] = Cardinality(Texts)
    /\ \E gen \in Gens(1) :
           \E k \in DOMAIN gen.out :
               \E i, j \in DOMAIN gen.out[k].batch.candidate_ids :
                   /\ gen.out[k].batch.candidate_ids[i][1] = gen.out[k].batch.candidate_ids[i][2]
                   /\ gen.out[k].batch.candidate_ids[j][2] = num_candidates[1] - 1

\* the instances (1-based) whose question or answer text has no id in batcher b's lexicons
Unknown(b, instances) ==
    {i \in DOMAIN instances :
        \/ ~Known(question_lexicon[b], instances[i].question[1])
        \/ ~Known(candidate_lexicon[b], instances[i].answer[1])}
MinOf(S) == CHOOSE x \in S : \A y \in S : x <= y

\* C5 as stated: whenever some instance of the data has a text outside the lexicons, the
\* iteration ends in the lookup error, and no batch holds that instance.
LookupErrorForAnyUnknown ==
    \A gen \in Gens(1) :
        /\ (FirstEnd(gen) # "" /\ Unknown(1, Source(1, gen)) # {})
               => FirstEnd(gen) = "LookupError"
        /\ \A k \in DOMAIN gen.out : \A i \in DOMAIN gen.out[k].src :
               gen.out[k].src[i] \notin Unknown(1, Source(1, gen))

\* C5, amended: the iteration ends in the lookup error exactly when an instance among the
\* first (L // B) * B has a text outside the lexicons; the windows before the first such
\* instance are emitted, and no batch ever holds an instance with such a text. Such an
\* instance among the last L % B is never looked up.
LookupErrorInWindows ==
    \A gen \in Gens(1) :
        LET src == Source(1, gen)
            B == gen.batch_size
            bad == {i \in Unknown(1, src) : i <= Full(gen, Len(src))}
        IN  /\ FirstEnd(gen) # "" =>
                   /\ FirstEnd(gen) = "LookupError" <=> bad # {}
                   /\ FirstEnd(gen) = "StopIteration" <=> bad = {}
                   /\ bad # {} => NB(gen) = (MinOf(bad) - 1) \div B
            /\ \A k \in DOMAIN gen.out :
                   /\ gen.out[k].kind = "batch" =>
                          \A i \in DOMAIN gen.out[k].batch.candidate_ids :
                              /\ gen.out[k].batch.candidate_ids[i][1] >= 0
                              /\ gen.out[k].batch.question_ids[i] >= 0
                   /\ \A i \in DOMAIN gen.out[k].src : gen.out[k].src[i] \notin Unknown(1, src)

\* a generator that emitted a batch and then failed on a text outside the lexicons
LookupErrorWitness ==
    \E gen \in Gens(1) : NB(gen) >= 1 /\ FirstEnd(gen) = "LookupError"

\* C7: each request adds one result to one generator; a generator that has yielded
\* L // B batches, or has ended, answers every later request with StopIteration and never
\* with a batch; a new create_batches call gives a generator that starts at the first
\* window.
LifecycleStep ==
    \A g \in DOMAIN gens'[1] :
        IF g \in DOMAIN gens[1]
        THEN LET old == gens[1][g]
                 new == gens'[1][g]
                 L == Len(Source(1, old))
             IN  /\ Len(new.out) <= Len(old.out) + 1
                 /\ SubSeq(new.out, 1, Len(old.out)) = old.out
                 /\ NB(new) <= L \div old.batch_size
                 /\ (new.out # old.out /\ (FirstEnd(old) # "" \/ NB(old) = L \div old.batch_size))
                        => new.out[Len(new.out)].kind = "StopIteration"
                 /\ (new.out # old.out /\ new.out[Len(new.out)].kind = "batch")
                        => new.out[Len(new.out)].src[1] = NB(old) * old.batch_size + 1
        ELSE /\ gens'[1][g].pc = "created"
             /\ gens'[1][g].out = <<>>
             /\ gens'[1][g].b = 0

GeneratorLifecycle == [][LifecycleStep]_vars

\* an exhausted generator asked twice more, and a later generator's first window
GeneratorLifecycleWitness ==
    /\ Len(gens[1]) = 2
    /\ NB(gens[1][1]) >= 1
    /\ Len(gens[1][1].out) = NB(gens[1][1]) + 2
    /\ FirstEnd(gens[1][1]) = "StopIteration"
    /\ NB(gens[1][2]) = 1
    /\ gens[1][2].out[1].src[1] = 1

\* C9: a generator created without data batches the instances of the reference data, one
\* created with data batches that data's instances; the reference data and both lexicons
\* stay what construction made them.
DefaultSourceInvariant ==
    status[1] = "ok" =>
        /\ reference_data[1] = quebaps
        /\ question_lexicon[1] = FrozenIdentifier(all_questions(quebaps))
        /\ candidate_lexicon[1] = FrozenIdentifier(all_candidates(quebaps))
        /\ \A gen \in Gens(1) :
               gen.pc # "created" =>
                   gen.instances = IF gen.data = <<>> THEN quebaps.instances[1]
                                   ELSE gen.data[1].instances[1]

\* one generator over the reference data and one over other data, both having emitted
DefaultSourceWitness ==
    /\ test_data.instances # quebaps.instances
    /\ \E g1, g2 \in Gens(1) :
           /\ g1.data = <<>> /\ NB(g1) >= 1
           /\ g2.data = <<test_data>> /\ NB(g2) >= 1
           /\ g1.out[1].batch.question_ids # g2.out[1].batch.question_ids

\* the state of random.Random(0) after d calls of randint(0, n - 1)
RECURSIVE PosAfter(_, _, _)
PosAfter(pos, n, d) == IF d = 0 THEN pos ELSE PosAfter(randint(pos, 0, n - 1).pos, n, d - 1)

RECURSIVE EmittedElements(_, _)
EmittedElements(gs, g) ==
    IF g > Len(gs) THEN 0 ELSE NB(gs[g]) * gs[g].batch_size + EmittedElements(gs, g + 1)

\* C10: the draws made equal the sum of batch_size over the batches emitted, and the
\* random source is in the state that many draws from the seed leave it in: creating a
\* generator, asking an ended one, and a failing request draw nothing, and nothing reseeds.
DrawAccounting ==
    status[1] = "ok" =>
        /\ draws[1] = EmittedElements(gens[1], 1)
        /\ random[1] = PosAfter(0, num_candidates[1], EmittedElements(gens[1], 1))

\* two generators of different batch sizes that both emitted, one of them failed since
DrawAccountingWitness ==
    /\ Len(gens[1]) = 2
    /\ gens[1][1].batch_size # gens[1][2].batch_size
    /\ NB(gens[1][1]) >= 1 /\ NB(gens[1][2]) >= 1
    /\ \E gen \in Gens(1) : FirstEnd(gen) = "LookupError"

\* ------------------------------------------------------------- properties, malformed files
CtorFieldMissing(data) ==
    \/ data.candidates = <<>>
    \/ \E c \in Range(data.candidates[1]) : c = <<>>
    \/ data.instances = <<>>
    \/ \E inst \in Range(data.instances[1]) : inst.question = <<>>

\* C8 as stated: a file with any expected field missing makes construction fail, and no
\* missing field is first met when batches are generated.
MalformedFailsFast ==
    /\ status[1] # "none" => status[1] = "failed"
    /\ \A gen \in Gens(1) : \A k \in DOMAIN gen.out : gen.out[k].kind # "StructuralError"

\* the instances (1-based) of the visited windows whose first answer text line 75 cannot
\* turn into an id: the text is missing, or it is no symbol of the candidate lexicon
AnswerFails(b, instances, full) ==
    {i \in 1..full :
        \/ instances[i].answer = <<>>
        \/ ~Known(candidate_lexicon[b], instances[i].answer[1])}

\* C8, amended: construction fails, leaving no batcher, exactly when globals.candidates, a
\* candidate's text, instances or an instance's first question text is missing. A missing
\* first answer text is not met by construction. Iterating over the reference data with
\* batch size B then ends in the structural error exactly when the first instance among
\* the first (L // B) * B whose answer text is missing or unknown to the candidate lexicon
\* has it missing (raised by the request for that instance's window, the windows before it
\* emitted); in the lookup error when that instance's text is unknown; and normally, with
\* all L // B batches, when there is no such instance, a missing answer among the last
\* L % B instances included.
MalformedDetection ==
    /\ status[1] = "none" => gens[1] = <<>>
    /\ status[1] = "failed" =>
           /\ CtorFieldMissing(quebaps)
           /\ reference_data[1] = NoData
           /\ question_lexicon[1] = <<>> /\ candidate_lexicon[1] = <<>>
           /\ gens[1] = <<>>
    /\ status[1] = "ok" =>
           /\ ~CtorFieldMissing(quebaps)
           /\ \E inst \in Range(quebaps.instances[1]) : inst.answer = <<>>
           /\ \A gen \in Gens(1) :
                  gen.data = <<>> =>
                      LET src == quebaps.instances[1]
                          B == gen.batch_size
                          bad == AnswerFails(1, src, Full(gen, Len(src)))
                      IN  /\ NB(gen) <= (IF bad = {} THEN Len(src) \div B
                                         ELSE (MinOf(bad) - 1) \div B)
                          /\ FirstEnd(gen) # "" =>
                                 /\ FirstEnd(gen) = "StructuralError" <=>
                                        (bad # {} /\ src[MinOf(bad)].answer = <<>>)
                                 /\ FirstEnd(gen) = "LookupError" <=>
                                        (bad # {} /\ src[MinOf(bad)].answer # <<>>)
                                 /\ FirstEnd(gen) = "StopIteration" <=> bad = {}
                                 /\ NB(gen) = (IF bad = {} THEN Len(src) \div B
                                               ELSE (MinOf(bad) - 1) \div B)

\* a batcher built from a file with a missing answer text, failing on a later request
MalformedDetectionWitness ==
    /\ status[1] = "ok"
    /\ \E gen \in Gens(1) :
           gen.data = <<>> /\ NB(gen) >= 1 /\ FirstEnd(gen) = "StructuralError"

\* ------------------------------------------------------------- properties, two batchers
Outs(b) == [g \in DOMAIN gens[b] |-> gens[b][g].out]

\* C4: two batchers built from the same file and given the same calls have emitted the
\* same results, sampled negatives included.
Reproducible ==
    (status[1] = "ok" /\ status[2] = "ok" /\ calls[1] = calls[2]) => gens[1] = gens[2]

\* the same three calls on both, with two batches drawn
ReproducibleWitness ==
    /\ calls[1] = calls[2]
    /\ Len(calls[1]) = MaxPairCalls
    /\ EmittedElements(gens[2], 1) >= 2
    /\ num_candidates[2] = Cardinality(Texts)

SameButTest(c, d) ==
    /\ Len(c) = Len(d)
    /\ \A k \in DOMAIN c : [c[k] EXCEPT !.test = FALSE] = [d[k] EXCEPT !.test = FALSE]

\* C6: calls that differ only in the test flag emit the same results, each batch pairing
\* every answer with exactly one sampled candidate, and leave the random sources in the
\* same state.
TestFlagNoEffect ==
    (status[1] = "ok" /\ status[2] = "ok" /\ SameButTest(calls[1], calls[2])) =>
        /\ Outs(1) = Outs(2)
        /\ random[1] = random[2]
        /\ draws[1] = draws[2]
        /\ \A b \in Batchers : draws[b] = EmittedElements(gens[b], 1)

\* the same calls with a different test flag, and a batch drawn under each
TestFlagWitness ==
    /\ SameButTest(calls[1], calls[2])
    /\ \E g \in DOMAIN gens[1] :
           /\ g \in DOMAIN gens[2]
           /\ gens[1][g].test # gens[2][g].test
           /\ NB(gens[1][g]) >= 1 /\ NB(gens[2][g]) >= 1
           /\ num_candidates[1] = Cardinality(Texts)

=============================================================================
